---- MODULE Spec2Model ----
(***************************************************************************)
(* The world/chunk subsystem of voxel-game-go (internal/world): the sparse *)
(* chunk store, coordinate resolution of GetBlock/SetBlock, neighbour-     *)
(* aware face-culled meshing, and the streaming/eviction pass UpdateChunks.*)
(* Around it, as far as they reach the store: the camera, the input        *)
(* callbacks, the player's target and block placement, and the game loop.  *)
(*                                                                         *)
(* Scale.  The source sets ChunkSize = 16, ChunkHeight = 256 and           *)
(* RenderDistance = 16.  The model keeps every formula of the source and   *)
(* scales these three constants down so that whole stores can be           *)
(* enumerated:                                                             *)
(*   ChunkSize = 3       a chunk still has boundary columns on both sides  *)
(*                       (local 0 and ChunkSize-1) and an interior column; *)
(*   ChunkHeight = 7     ChunkHeight-5 is still >= 2, so both height       *)
(*                       clamps of generateChunk keep their order;         *)
(*   RenderDistance = 5  the least value for which, as for 16, the corner  *)
(*                       of the square generation window lies outside the  *)
(*                       eviction radius: 2*R*R > (R+2)*(R+2).             *)
(* The literals of the source (the spawn square -2..2, the eviction margin *)
(* 2, the height clamp 2 and ChunkHeight-5, the block thresholds) are kept.*)
(***************************************************************************)
EXTENDS Integers, Sequences, FiniteSets, TLC

\* ------------------------------------------------------------------------
\* Constants of the program
\* ------------------------------------------------------------------------
ChunkSize == 3

ChunkHeight == 7

RenderDistance == 5

\* the literal 2 of "RenderDistance+2" in UpdateChunks
EvictionMargin == 2

\* the literal 2 of the loops "for x := -2; x <= 2" in NewWorld
SpawnRadius == 2

BlockAir == 0

BlockDirt == 1

BlockGrass == 2

BlockStone == 3

BlockSnow == 4

\* BlockSand is used by generateChunk; the file that declares it is not
\* part of the sources at hand, the value only has to differ from the others.
BlockSand == 5

BlockTypes == {BlockAir, BlockDirt, BlockGrass, BlockStone, BlockSnow, BlockSand}

\* ------------------------------------------------------------------------
\* Bounds of the model
\* ------------------------------------------------------------------------
\* observer positions along x are n * ChunkSize - 0.5 blocks, n in
\* -MaxStep..MaxStep
MaxStep == 2

\* UpdateChunks calls per run
MaxTicks == 3

\* SetBlock calls per run
MaxEdits == 1

\* GetBlock calls per run
MaxProbes == 1

\* ------------------------------------------------------------------------
\* Go integer arithmetic: / truncates toward zero, % takes the sign of the
\* dividend (TLA+ \div floors and % is never negative)
\* ------------------------------------------------------------------------
GoDiv(a, b) == IF a >= 0 THEN a \div b ELSE -((-a) \div b)

GoMod(a, b) == a - b * GoDiv(a, b)

Min(a, b) == IF a <= b THEN a ELSE b

\* ------------------------------------------------------------------------
\* Chunk and mesh
\* ------------------------------------------------------------------------
\* Chunk.Mesh == nil
NoMesh == [isNil |-> TRUE, VertexCount |-> 0]

\* the index set of Chunk.Blocks, [x][y][z]
Voxels == (0 .. ChunkSize - 1) \X (0 .. ChunkHeight - 1) \X (0 .. ChunkSize - 1)

\* ------------------------------------------------------------------------
\* Terrain generation.  Real numbers are kept in thousandths.
\* ------------------------------------------------------------------------
\* w.noise.Eval2 of the normalized opensimplex field (values in [0,1]): a
\* fixed function of the sample point; layer stands for the frequency
\* (1: 0.004, 2: 0.5, 3: 0.015, 4: 0.005, 5: 0.1).  The library is not part
\* of the repository; only "same point, same value" is used of it.
NoiseEval2(layer, absX, absZ) == ((absX * 7 + absZ * 13 + layer * 5) % 11) * 100

Amplitude(ruggedness) ==
    IF ruggedness > 600
    THEN 40000 + Min(((ruggedness - 600) * 1000) \div 400, 1000) * 100
    ELSE IF ruggedness > 200
         THEN 10000 + Min(((ruggedness - 200) * 1000) \div 400, 1000) * 30
         ELSE 2000 + (ruggedness + 1000) * 8

\* height, from the four noise samples that enter it
RawHeightOf(ruggedness, m, baseElevation, detail) ==
    LET mountainShape == (m * m) \div 1000
    IN  25000 + baseElevation * 20
              + (mountainShape * Amplitude(ruggedness)) \div 1000
              + detail * 2

RawHeight(absX, absZ) ==
    RawHeightOf(NoiseEval2(1, absX, absZ), NoiseEval2(3, absX, absZ),
                NoiseEval2(4, absX, absZ), NoiseEval2(5, absX, absZ))

\* (variant: the upper clamp left out)
ClampHeightLowerOnly(height, chunkHeight) ==
    IF height < 2000 THEN 2000 ELSE height

\* the two clamps, for a chunk height given
ClampHeightTo(height, chunkHeight) ==
    LET h1 == IF height < 2000 THEN 2000 ELSE height
    IN  IF h1 > (chunkHeight - 5) * 1000 THEN (chunkHeight - 5) * 1000 ELSE h1

ClampHeight(height) == ClampHeightTo(height, ChunkHeight)

HeightInt(absX, absZ) == GoDiv(ClampHeight(RawHeight(absX, absZ)), 1000)

\* (variant: the surface voxel left empty)
ColumnBlockOpenSurface(y, heightInt, jitter) ==
    IF y = 0 THEN BlockStone
    ELSE IF y >= heightInt THEN BlockAir
    ELSE IF y > heightInt - 4
         THEN IF y > 80 THEN BlockStone
              ELSE IF heightInt <= 33 THEN BlockSand
              ELSE BlockDirt
    ELSE BlockStone

\* (variant: the band under the surface one voxel thinner)
ColumnBlockThinBand(y, heightInt, jitter) ==
    IF y = 0 THEN BlockStone
    ELSE IF y > heightInt THEN BlockAir
    ELSE IF y = heightInt
         THEN IF y > 90 + GoDiv(jitter * 11, 1000) THEN BlockSnow
              ELSE IF y > 72 + GoDiv(jitter * 7, 1000) THEN BlockStone
              ELSE IF y <= 33 THEN BlockSand
              ELSE BlockGrass
    ELSE IF y > heightInt - 3
         THEN IF y > 80 THEN BlockStone
              ELSE IF heightInt <= 33 THEN BlockSand
              ELSE BlockDirt
    ELSE BlockStone

ColumnBlock(y, heightInt, jitter) ==
    IF y = 0 THEN BlockStone
    ELSE IF y > heightInt THEN BlockAir
    ELSE IF y = heightInt
         THEN IF y > 90 + GoDiv(jitter * 11, 1000) THEN BlockSnow
              ELSE IF y > 72 + GoDiv(jitter * 7, 1000) THEN BlockStone
              ELSE IF y <= 33 THEN BlockSand
              ELSE BlockGrass
    ELSE IF y > heightInt - 4
         THEN IF y > 80 THEN BlockStone
              ELSE IF heightInt <= 33 THEN BlockSand
              ELSE BlockDirt
    ELSE BlockStone

\* "@@ << >>" leaves the array as it is; it makes TLC tabulate it once
\* instead of running the column fill again at every read
generateChunk(chunkX, chunkZ) ==
    [X |-> chunkX, Z |-> chunkZ,
     Blocks |-> [v \in Voxels |->
                   LET absX == chunkX * ChunkSize + v[1]
                       absZ == chunkZ * ChunkSize + v[3]
                   IN  ColumnBlock(v[2], HeightInt(absX, absZ),
                                   NoiseEval2(2, absX, absZ))] @@ << >>,
     Mesh |-> NoMesh]

\* ------------------------------------------------------------------------
\* Meshing (chunks.go).  store is World.chunks: a function from the loaded
\* keys <<x, z>> to chunks.
\* ------------------------------------------------------------------------
\* w.chunks[key] of a missing key is nil
Loaded(store, key) == key \in DOMAIN store

\* (variant: the cell below the world counts as filled)
isTransparentClosedBelow(c, store, x, y, z) ==
    IF y < 0 THEN FALSE
    ELSE IF y >= ChunkHeight THEN TRUE
    ELSE IF x >= 0 /\ x < ChunkSize /\ z >= 0 /\ z < ChunkSize
         THEN c.Blocks[<<x, y, z>>] = BlockAir
    ELSE LET k == <<c.X + (IF x < 0 THEN -1 ELSE IF x >= ChunkSize THEN 1 ELSE 0),
                    c.Z + (IF x >= 0 /\ x < ChunkSize
                           THEN (IF z < 0 THEN -1 ELSE 1) ELSE 0)>>
         IN  IF ~Loaded(store, k) THEN TRUE
             ELSE store[k].Blocks[<<x % ChunkSize, y, z % ChunkSize>>] = BlockAir

\* (variant: a neighbour chunk that is not loaded counts as filled)
isTransparentAbsentFilled(c, store, x, y, z) ==
    IF y < 0 \/ y >= ChunkHeight THEN TRUE
    ELSE IF x >= 0 /\ x < ChunkSize /\ z >= 0 /\ z < ChunkSize
         THEN c.Blocks[<<x, y, z>>] = BlockAir
    ELSE LET k == <<c.X + (IF x < 0 THEN -1 ELSE IF x >= ChunkSize THEN 1 ELSE 0),
                    c.Z + (IF x >= 0 /\ x < ChunkSize
                           THEN (IF z < 0 THEN -1 ELSE 1) ELSE 0)>>
         IN  IF ~Loaded(store, k) THEN FALSE
             ELSE store[k].Blocks[<<x % ChunkSize, y, z % ChunkSize>>] = BlockAir

\* the closure isTransparent of generateMesh; nLeft, nRight, nBack and nFront
\* are the chunks at X-1, X+1, Z-1 and Z+1
isTransparent(c, store, x, y, z) ==
    IF y < 0 \/ y >= ChunkHeight THEN TRUE
    ELSE IF x >= 0 /\ x < ChunkSize /\ z >= 0 /\ z < ChunkSize
         THEN c.Blocks[<<x, y, z>>] = BlockAir
    ELSE IF x < 0
         THEN IF ~Loaded(store, <<c.X - 1, c.Z>>) THEN TRUE
              ELSE store[<<c.X - 1, c.Z>>].Blocks[<<ChunkSize - 1, y, z>>] = BlockAir
    ELSE IF x >= ChunkSize
         THEN IF ~Loaded(store, <<c.X + 1, c.Z>>) THEN TRUE
              ELSE store[<<c.X + 1, c.Z>>].Blocks[<<0, y, z>>] = BlockAir
    ELSE IF z < 0
         THEN IF ~Loaded(store, <<c.X, c.Z - 1>>) THEN TRUE
              ELSE store[<<c.X, c.Z - 1>>].Blocks[<<x, y, ChunkSize - 1>>] = BlockAir
    ELSE IF z >= ChunkSize
         THEN IF ~Loaded(store, <<c.X, c.Z + 1>>) THEN TRUE
              ELSE store[<<c.X, c.Z + 1>>].Blocks[<<x, y, 0>>] = BlockAir
    ELSE TRUE

\* the cell a face looks at: 0 front (z+1), 1 back (z-1), 2 right (x+1),
\* 3 left (x-1), 4 top (y+1), 5 bottom (y-1)
FaceCell(x, y, z, face) ==
    CASE face = 0 -> <<x, y, z + 1>>
      [] face = 1 -> <<x, y, z - 1>>
      [] face = 2 -> <<x + 1, y, z>>
      [] face = 3 -> <<x - 1, y, z>>
      [] face = 4 -> <<x, y + 1, z>>
      [] face = 5 -> <<x, y - 1, z>>

\* the addFace calls of one generateMesh run: a (voxel, face) pair each
Faces(c, store) ==
    {vf \in Voxels \X (0 .. 5) :
        /\ c.Blocks[vf[1]] # BlockAir
        /\ LET n == FaceCell(vf[1][1], vf[1][2], vf[1][3], vf[2])
           IN  isTransparent(c, store, n[1], n[2], n[3])}

\* (variant: a face of 4 vertices)
VertexTotalFour(c, store) == (Cardinality(Faces(c, store)) * 4 * 8) \div 8

\* len(vertices) / 8: addFace appends 6 vertices of 8 floats each
VertexTotal(c, store) == (Cardinality(Faces(c, store)) * 6 * 8) \div 8

\* the end of generateMesh: with no vertex it returns before touching
\* c.Mesh, otherwise c.Mesh is allocated if nil and VertexCount is set
StoreMesh(c, n) ==
    IF n = 0 THEN c
    ELSE [c EXCEPT !.Mesh = [isNil |-> FALSE, VertexCount |-> n]]

\* Chunk.generateMesh
generateMesh(c, store) == StoreMesh(c, VertexTotal(c, store))

\* chunk.generateMesh(w) for the chunk stored at key
MeshChunk(store, key) == [store EXCEPT ![key] = generateMesh(store[key], store)]

RECURSIVE MeshAll(_, _)
MeshAll(store, keys) ==
    IF keys = << >> THEN store
    ELSE MeshAll(MeshChunk(store, Head(keys)), Tail(keys))

\* ------------------------------------------------------------------------
\* Coordinate resolution of GetBlock and SetBlock (world.go)
\* ------------------------------------------------------------------------
\* (variant: the quotient of Go's division as it is, no step down for a
\* negative remainder)
ResolveChunkTruncated(v) == GoDiv(v, ChunkSize)

ResolveChunk(v) ==
    IF GoMod(v, ChunkSize) < 0 THEN GoDiv(v, ChunkSize) - 1 ELSE GoDiv(v, ChunkSize)

ResolveLocal(v) ==
    IF GoMod(v, ChunkSize) < 0 THEN GoMod(v, ChunkSize) + ChunkSize
    ELSE GoMod(v, ChunkSize)

\* (variant: y clamped into the chunk instead of answered with Air)
GetBlockClamped(store, x, y, z) ==
    LET key == <<ResolveChunk(x), ResolveChunk(z)>>
        yc == IF y < 0 THEN 0 ELSE IF y >= ChunkHeight THEN ChunkHeight - 1 ELSE y
    IN  IF ~Loaded(store, key) THEN BlockAir
        ELSE store[key].Blocks[<<ResolveLocal(x), yc, ResolveLocal(z)>>]

GetBlock(store, x, y, z) ==
    IF y < 0 \/ y >= ChunkHeight THEN BlockAir
    ELSE LET key == <<ResolveChunk(x), ResolveChunk(z)>>
         IN  IF ~Loaded(store, key) THEN BlockAir
             ELSE store[key].Blocks[<<ResolveLocal(x), y, ResolveLocal(z)>>]

\* (variant: the test of y left out)
SetBlockWritesAnyY(store, x, y, z) ==
    Loaded(store, <<ResolveChunk(x), ResolveChunk(z)>>)

\* does SetBlock get past both early returns
SetBlockWrites(store, x, y, z) ==
    /\ ~(y < 0 \/ y >= ChunkHeight)
    /\ Loaded(store, <<ResolveChunk(x), ResolveChunk(z)>>)

\* (variant: the four edge tests in one else-if chain, a corner voxel
\* re-meshes its x-neighbour only)
SetBlockRemeshChained(store, x, z) ==
    LET chunkX == ResolveChunk(x)
        chunkZ == ResolveChunk(z)
        localX == ResolveLocal(x)
        localZ == ResolveLocal(z)
        n == IF localX = 0 THEN <<chunkX - 1, chunkZ>>
             ELSE IF localX = ChunkSize - 1 THEN <<chunkX + 1, chunkZ>>
             ELSE IF localZ = 0 THEN <<chunkX, chunkZ - 1>>
             ELSE IF localZ = ChunkSize - 1 THEN <<chunkX, chunkZ + 1>>
             ELSE << >>
    IN  <<<<chunkX, chunkZ>>>>
        \o (IF n # << >> /\ Loaded(store, n) THEN <<n>> ELSE << >>)

\* the generateMesh calls of a SetBlock that writes, in call order
SetBlockRemesh(store, x, z) ==
    LET chunkX == ResolveChunk(x)
        chunkZ == ResolveChunk(z)
        localX == ResolveLocal(x)
        localZ == ResolveLocal(z)
        nx == IF localX = 0 THEN <<chunkX - 1, chunkZ>>
              ELSE IF localX = ChunkSize - 1 THEN <<chunkX + 1, chunkZ>>
              ELSE << >>
        nz == IF localZ = 0 THEN <<chunkX, chunkZ - 1>>
              ELSE IF localZ = ChunkSize - 1 THEN <<chunkX, chunkZ + 1>>
              ELSE << >>
    IN  <<<<chunkX, chunkZ>>>>
        \o (IF nx # << >> /\ Loaded(store, nx) THEN <<nx>> ELSE << >>)
        \o (IF nz # << >> /\ Loaded(store, nz) THEN <<nz>> ELSE << >>)

\* (variant: the voxel indexed [z][y][x])
SetBlockSwapped(store, x, y, z, blockType) ==
    IF ~SetBlockWrites(store, x, y, z) THEN store
    ELSE LET key == <<ResolveChunk(x), ResolveChunk(z)>>
             written == [store EXCEPT ![key].Blocks[<<ResolveLocal(z), y, ResolveLocal(x)>>]
                                          = blockType]
         IN  MeshAll(written, SetBlockRemesh(store, x, z))

SetBlock(store, x, y, z, blockType) ==
    IF ~SetBlockWrites(store, x, y, z) THEN store
    ELSE LET key == <<ResolveChunk(x), ResolveChunk(z)>>
             written == [store EXCEPT ![key].Blocks[<<ResolveLocal(x), y, ResolveLocal(z)>>]
                                          = blockType]
         IN  MeshAll(written, SetBlockRemesh(store, x, z))

\* ------------------------------------------------------------------------
\* NewWorld and UpdateChunks (world.go)
\* ------------------------------------------------------------------------
\* the keys of "for x := cx-r..cx+r { for z := cz-r..cz+r", in loop order
WindowKeys(cx, cz, r) ==
    [i \in 1 .. (2 * r + 1) * (2 * r + 1) |->
        <<cx - r + ((i - 1) \div (2 * r + 1)), cz - r + ((i - 1) % (2 * r + 1))>>]

\* (variant: the terrain height of a chunk taken from the number of chunks
\* loaded when it is generated)
GenerateAtShifted(store, key) ==
    LET n == Cardinality(DOMAIN store) % ChunkHeight
        c == [X |-> key[1], Z |-> key[2],
              Blocks |-> [v \in Voxels |-> ColumnBlock(v[2], n, 0)] @@ << >>,
              Mesh |-> NoMesh]
    IN  MeshChunk((key :> c) @@ store, key)

\* (variant: after a chunk is stored and meshed, its loaded lateral
\* neighbours are meshed again)
GenerateAtRemeshNeighbours(store, key) ==
    LET around == <<<<key[1] - 1, key[2]>>, <<key[1] + 1, key[2]>>,
                    <<key[1], key[2] - 1>>, <<key[1], key[2] + 1>>>>
    IN  MeshAll(MeshChunk((key :> generateChunk(key[1], key[2])) @@ store, key),
                SelectSeq(around, LAMBDA k : Loaded(store, k)))

\* a chunk is generated, stored under key and meshed
GenerateAt(store, key) ==
    MeshChunk((key :> generateChunk(key[1], key[2])) @@ store, key)

\* (variant: a chunk that exists is generated again, like one that is
\* missing)
RECURSIVE GenerateRowAlways(_, _, _, _)
GenerateRowAlways(store, x, z, zMax) ==
    IF z > zMax THEN store
    ELSE IF Loaded(store, <<x, z>>)
         THEN GenerateRowAlways(GenerateAt(store, <<x, z>>), x, z + 1, zMax)
    ELSE GenerateRowAlways(GenerateAt(store, <<x, z>>), x, z + 1, zMax)

\* the inner loop "for z := z; z <= zMax; z++": a chunk missing at <<x, z>>
\* is generated (in NewWorld the store starts empty, every key is missing)
RECURSIVE GenerateRow(_, _, _, _)
GenerateRow(store, x, z, zMax) ==
    IF z > zMax THEN store
    ELSE IF Loaded(store, <<x, z>>) THEN GenerateRow(store, x, z + 1, zMax)
    ELSE GenerateRow(GenerateAt(store, <<x, z>>), x, z + 1, zMax)

\* the outer loop "for x := x; x <= xMax; x++"
RECURSIVE GenerateRows(_, _, _, _, _)
GenerateRows(store, x, xMax, zMin, zMax) ==
    IF x > xMax THEN store
    ELSE GenerateRows(GenerateRow(store, x, zMin, zMax), x + 1, xMax, zMin, zMax)

GenerateWindow(store, cx, cz, r) == GenerateRows(store, cx - r, cx + r, cz - r, cz + r)

EmptyStore == [k \in {} |-> NoMesh]

NewWorld == GenerateWindow(EmptyStore, 0, 0, SpawnRadius)

\* math.Floor of a position; positions are held in half blocks
MathFloor(p) == p \div 2

\* playerChunkX, playerChunkZ: int(math.Floor(float64(p))) / ChunkSize
PlayerChunk(p) == GoDiv(MathFloor(p), ChunkSize)

\* (variant: >= in place of >)
TooFarOrAt(key, pcx, pcz) ==
    LET dx == key[1] - pcx
        dz == key[2] - pcz
    IN  dx * dx + dz * dz >=
            (RenderDistance + EvictionMargin) * (RenderDistance + EvictionMargin)

\* math.Sqrt(float64(dx*dx + dz*dz)) > float64(RenderDistance+2); for
\* integers of this size the square root is monotone and exact on squares,
\* so the test is the comparison of the squares
TooFar(key, pcx, pcz) ==
    LET dx == key[1] - pcx
        dz == key[2] - pcz
    IN  dx * dx + dz * dz >
            (RenderDistance + EvictionMargin) * (RenderDistance + EvictionMargin)

\* the keys appended to toDelete
ToDelete(store, pcx, pcz) == {key \in DOMAIN store : TooFar(key, pcx, pcz)}

\* the generation loop of UpdateChunks
Generated(store, playerX, playerZ) ==
    GenerateWindow(store, PlayerChunk(playerX), PlayerChunk(playerZ), RenderDistance)

\* the two loops that unload: delete(w.chunks, key) for every key of toDelete
Unload(store, pcx, pcz) ==
    [key \in DOMAIN store \ ToDelete(store, pcx, pcz) |-> store[key]]

UpdateChunks(store, playerX, playerZ) ==
    Unload(Generated(store, playerX, playerZ),
           PlayerChunk(playerX), PlayerChunk(playerZ))

\* ------------------------------------------------------------------------
\* The GL objects of the meshes.  A ChunkMesh holds a vertex array and a
\* buffer, generated together and deleted together: the pair has one id,
\* its two names are <<"VAO", id>> and <<"VBO", id>>.  The ids the chunks
\* hold are kept in a function of their own, from the key of a chunk with a
\* mesh to the id in Mesh.VAO and Mesh.VBO.
\* ------------------------------------------------------------------------
GLNames(id) == {<<"VAO", id>>, <<"VBO", id>>}

\* gl.GenVertexArrays / gl.GenBuffers give a name not in use: for the mesh
\* of the chunk at key, the first of <<key, 0>>, <<key, 1>>, ... not live
FreshId(key, live) ==
    <<key, CHOOSE n \in 0 .. Cardinality(live) :
               /\ <<"VAO", <<key, n>>>> \notin live
               /\ \A m \in 0 .. n - 1 : <<"VAO", <<key, m>>>> \in live>>

\* c.Mesh before generateMesh runs on the chunk at key; a chunk just
\* generated has none
MeshBefore(store, key) == IF Loaded(store, key) THEN store[key].Mesh ELSE NoMesh

\* (variant: a pair is generated at every upload)
AllocatesAtUpload(meshBefore, meshAfter) == ~meshAfter.isNil

\* "if c.Mesh == nil { c.Mesh = &ChunkMesh{}; gl.GenVertexArrays; gl.GenBuffers }",
\* which generateMesh reaches only with a vertex to upload
Allocates(meshBefore, meshAfter) == meshBefore.isNil /\ ~meshAfter.isNil

\* (variant: the unload scan deletes nothing)
EvictDeletesNothing(c) == FALSE

\* "if w.chunks[key].Mesh != nil" of the unload scan
EvictDeletes(c) == ~c.Mesh.isNil

GLEvent(call, name, step) == [call |-> call, name |-> name, step |-> step]

\* the GL side of generateMesh run once on each chunk of keys, taking the
\* store from before to after: the ids held, the live names, the calls made
Uploaded(held, live, before, after, keys, step) ==
    LET alloc == {k \in keys : Allocates(MeshBefore(before, k), after[k].Mesh)}
        now == [k \in DOMAIN held \cup alloc |->
                   IF k \in alloc THEN FreshId(k, live) ELSE held[k]] @@ << >>
    IN  [held |-> now,
         live |-> live \cup UNION {GLNames(now[k]) : k \in alloc},
         log |-> {GLEvent(c, now[k], step) :
                     c \in {"GenVertexArrays", "GenBuffers"}, k \in alloc}]

\* the GL side of the unload scan over the store grown by the generation
\* loop, followed by the delete loop
Released(up, grown, pcx, pcz) ==
    LET gone == ToDelete(grown, pcx, pcz)
        freed == {k \in gone : EvictDeletes(grown[k])}
        names == UNION {GLNames(up.held[k]) : k \in freed}
    IN  [held |-> [k \in DOMAIN up.held \ gone |-> up.held[k]] @@ << >>,
         live |-> up.live \ names,
         bad |-> names \ up.live,
         log |-> up.log
                 \cup {GLEvent(c, up.held[k], 2) :
                          c \in {"DeleteVertexArrays", "DeleteBuffers"}, k \in freed}
                 \cup {GLEvent("delete", k, 3) : k \in gone}]

\* the test of RenderWorld that lets a chunk through to gl.DrawArrays
Drawn(c) == ~(c.Mesh.isNil \/ c.Mesh.VertexCount = 0)

\* the keys of a sequence of keys
Keys(seq) == {seq[i] : i \in DOMAIN seq}

\* ------------------------------------------------------------------------
\* Camera and InputManager (camera.go).  Angles are whole degrees,
\* positions tenths of a block.
\* ------------------------------------------------------------------------
\* the six planes updateFrustum extracts from projection * view: the
\* projection is fixed, the view is a function of Position and of Front and
\* Up, which are functions of Yaw (with period 360) and Pitch; the planes
\* are stood for by the values they are computed from
updateFrustum(c) == [c EXCEPT !.frustum = <<c.Position, c.Yaw % 360, c.Pitch>>]

\* Front, Right and Up are functions of Yaw and Pitch and are not kept
updateCameraVectors(c) ==
    updateFrustum(IF ~c.FrustumFrozen THEN updateFrustum(c) ELSE c)

NewCamera ==
    updateCameraVectors([Position |-> <<0, 700, 0>>, Yaw |-> -90, Pitch |-> 0,
                         FrustumFrozen |-> FALSE, frustum |-> << >>])

\* xoffset and yoffset come in steps of ten pixels: MouseSensitivity is 0.1
ProcessMouseMovement(c, xoffset, yoffset) ==
    LET pitch == c.Pitch + yoffset
        p1 == IF pitch > 89 THEN 89 ELSE pitch
        p2 == IF p1 < -89 THEN -89 ELSE p1
    IN  updateCameraVectors([c EXCEPT !.Yaw = c.Yaw + xoffset, !.Pitch = p2])

\* math.Cos and math.Sin in thousandths, at the angles the camera is turned
\* to: the multiples of 90 degrees and the two ends of the pitch range
Cos(deg) ==
    CASE deg % 360 = 0 -> 1000
      [] deg % 360 = 90 -> 0
      [] deg % 360 = 180 -> -1000
      [] deg % 360 = 270 -> 0
      [] deg % 360 = 89 -> 17
      [] deg % 360 = 271 -> 17

Sin(deg) ==
    CASE deg % 360 = 0 -> 0
      [] deg % 360 = 90 -> 1000
      [] deg % 360 = 180 -> 0
      [] deg % 360 = 270 -> -1000
      [] deg % 360 = 89 -> 1000
      [] deg % 360 = 271 -> -1000

\* Camera.Front as updateCameraVectors computes it, in thousandths
Front(c) ==
    <<(Cos(c.Yaw) * Cos(c.Pitch)) \div 1000,
      Sin(c.Pitch),
      (Sin(c.Yaw) * Cos(c.Pitch)) \div 1000>>

NewInputManager ==
    [debugMode |-> FALSE, cursorLocked |-> TRUE, selectedBlock |-> BlockDirt]

\* ------------------------------------------------------------------------
\* Player (player.go).  Positions are in tenths of a block.
\* ------------------------------------------------------------------------
\* width: 0.6
PlayerWidth == 6

\* height: 1.8
PlayerHeight == 18

\* GetEyeHeight: height - 0.2
GetEyeHeight == PlayerHeight - 2

\* p.updateTarget calls p.Raycast(5.0); the ray advances by 0.1
RaycastReach == 50

Abs(n) == IF n < 0 THEN -n ELSE n

\* int(math.Floor(v)) of a value in tenths
FloorTenths(v) == v \div 10

\* the zero TargetBlock
NoTarget == [Hit |-> FALSE, Pos |-> <<0, 0, 0>>, Face |-> 0]

\* PhysicsPos starts as the camera position
NewPlayer(c) == [PhysicsPos |-> c.Position, target |-> NoTarget]

\* PhysicsPos.Add(mgl32.Vec3{0, p.GetEyeHeight(), 0})
EyeOf(pos) == <<pos[1], pos[2] + GetEyeHeight, pos[3]>>

\* the cell of pos + dir * dist along the camera's ray, dist in tenths
RayCell(c, dist) ==
    [i \in 1 .. 3 |-> (c.Position[i] * 1000 + Front(c)[i] * dist) \div 10000]

\* the face of the hit cell b the ray came through, from the cell p of the
\* sample before; face keeps its zero value when the cells are the same
HitFace(b, p) ==
    IF b[1] # p[1] THEN (IF b[1] > p[1] THEN 3 ELSE 2)
    ELSE IF b[2] # p[2] THEN (IF b[2] > p[2] THEN 5 ELSE 4)
    ELSE IF b[3] # p[3] THEN (IF b[3] > p[3] THEN 1 ELSE 0)
    ELSE 0

\* Player.Raycast followed by the assignment of updateTarget
updateTarget(store, c) ==
    LET hits == {d \in 0 .. RaycastReach - 1 :
                    GetBlock(store, RayCell(c, d)[1], RayCell(c, d)[2], RayCell(c, d)[3])
                        # BlockAir}
    IN  IF hits = {} THEN NoTarget
        ELSE LET d == CHOOSE h \in hits : \A g \in hits : h <= g
             IN  [Hit |-> TRUE, Pos |-> RayCell(c, d),
                  Face |-> HitFace(RayCell(c, d), RayCell(c, d - 1))]

\* Player.checkCollision: a block in a cell the box at pos reaches into
checkCollision(store, pos) ==
    \E x \in FloorTenths(pos[1] - PlayerWidth \div 2) .. FloorTenths(pos[1] + PlayerWidth \div 2),
       y \in FloorTenths(pos[2]) .. FloorTenths(pos[2] + PlayerHeight),
       z \in FloorTenths(pos[3] - PlayerWidth \div 2) .. FloorTenths(pos[3] + PlayerWidth \div 2) :
        GetBlock(store, x, y, z) # BlockAir

\* Player.isGrounded: a block in the layer below the feet
isGrounded(store, pos) ==
    \E x \in FloorTenths(pos[1] - PlayerWidth \div 2) .. FloorTenths(pos[1] + PlayerWidth \div 2),
       z \in FloorTenths(pos[3] - PlayerWidth \div 2) .. FloorTenths(pos[3] + PlayerWidth \div 2) :
        GetBlock(store, x, FloorTenths(pos[2]) - 1, z) # BlockAir

\* Player.collidesWithPlayer, x, y, z the cell of the block to place
collidesWithPlayer(pos, x, y, z) ==
    /\ Abs(pos[1] - 10 * x) < PlayerWidth
    /\ pos[2] < 10 * y + PlayerHeight
    /\ pos[2] + PlayerHeight > 10 * y
    /\ Abs(pos[3] - 10 * z) < PlayerWidth

\* the cell PlaceBlock steps to from the target through its face
PlaceCell(target) ==
    LET x == target.Pos[1]
        y == target.Pos[2]
        z == target.Pos[3]
    IN  CASE target.Face = 0 -> <<x, y, z + 1>>
          [] target.Face = 1 -> <<x, y, z - 1>>
          [] target.Face = 2 -> <<x + 1, y, z>>
          [] target.Face = 3 -> <<x - 1, y, z>>
          [] target.Face = 4 -> <<x, y + 1, z>>
          [] target.Face = 5 -> <<x, y - 1, z>>

\* does PlaceBlock get past both early returns to w.SetBlock
PlaceBlockCalls(p) ==
    /\ p.target.Hit
    /\ ~collidesWithPlayer(p.PhysicsPos, PlaceCell(p.target)[1], PlaceCell(p.target)[2],
                           PlaceCell(p.target)[3])

\* Player.TeleportToCamera
TeleportToCamera(p, c) ==
    [p EXCEPT !.PhysicsPos = <<c.Position[1], c.Position[2] - GetEyeHeight, c.Position[3]>>]

\* ------------------------------------------------------------------------
\* State
\* ------------------------------------------------------------------------
VARIABLES
    chunks,     \* World.chunks
    op,         \* the last call and its arguments
    ret,        \* the value the last GetBlock returned
    remeshed,   \* the keys whose generateMesh ran in the last call, in order
    generated,  \* the keys generateChunk was called for in the last call
    evicted,    \* the keys the last call deleted from World.chunks
    hist,       \* the observer chunk of every UpdateChunks call so far
    edits,      \* the number of SetBlock calls so far
    probes,     \* the number of GetBlock calls so far
    buffers,    \* Mesh.VAO / Mesh.VBO of the loaded chunks that have a mesh
    glLive,     \* the GL names generated and not deleted
    glLog,      \* the GL calls and map deletions of the last call
    glBad,      \* the GL names deleted while not live
    written,    \* the cells SetBlock has written to
    cam,        \* the Camera
    input,      \* the InputManager: debugMode, cursorLocked
    plr,        \* the Player: PhysicsPos, target
    loop        \* the main loop: where it is, the chunks drawn in this frame

vars == <<chunks, op, ret, remeshed, generated, evicted, hist, edits, probes,
          buffers, glLive, glLog, glBad, written, cam, input, plr, loop>>

\* the part of the state outside the world
game == <<cam, input, plr, loop>>

\* the world and what is recorded of its calls
world == <<chunks, op, ret, remeshed, generated, evicted, hist, edits, probes,
           buffers, glLive, glLog, glBad, written>>

\* the game as main leaves it before the first frame
GameStarts ==
    /\ written = {}
    /\ input = NewInputManager
    /\ cam = [NewCamera EXCEPT !.Position = EyeOf(NewCamera.Position)]
    /\ plr = NewPlayer(NewCamera)
    /\ loop = [pc |-> "PollEvents", drawn |-> 0, frames |-> 0]

\* the GL state NewWorld leaves: every chunk of the spawn square meshed once
SpawnGL ==
    Uploaded(<< >>, {}, EmptyStore, NewWorld, DOMAIN NewWorld, 1)

Call(name, x, y, z, t) == [name |-> name, x |-> x, y |-> y, z |-> z, t |-> t]

\* the positions the observer is seen at, in half blocks: along x half a
\* block below every chunk border, along z half a chunk below zero, or zero
PositionsX == {2 * n * ChunkSize - 1 : n \in -MaxStep .. MaxStep}

PositionsZ == {-ChunkSize, 0}

\* the cells and block types the player edits while chunks stream
StreamCells == {<<-1, 1, -1>>, <<ChunkSize * (RenderDistance + 1), 1, 4 * ChunkSize>>}

StreamTypes == {BlockAir}

\* the cells the player edits and probes near the spawn corner: x and z
\* from chunk -3 (which NewWorld does not load) up to the last column below
\* zero, y from below the world to above it
EditCoords == -(SpawnRadius + 1) * ChunkSize + 2 .. -1

EditYs == {-1, 0, 1, ChunkHeight}

EditTypes == {BlockAir, BlockDirt, BlockStone}

\* the blocks of chunk (-SpawnRadius, -SpawnRadius) up to the highest level
\* terrain reaches, from the top layer down
DigCells ==
    [i \in 1 .. ChunkSize * ChunkSize * (ChunkHeight - 4) |->
        <<-SpawnRadius * ChunkSize + (((i - 1) % (ChunkSize * ChunkSize)) \div ChunkSize),
          ChunkHeight - 5 - ((i - 1) \div (ChunkSize * ChunkSize)),
          -SpawnRadius * ChunkSize + ((i - 1) % ChunkSize)>>]

\* the world after the player has broken the first n blocks of DigCells
RECURSIVE Dug(_)
Dug(n) ==
    IF n = 0 THEN NewWorld
    ELSE SetBlock(Dug(n - 1), DigCells[n][1], DigCells[n][2], DigCells[n][3], BlockAir)

\* nothing broken yet, or every block of the chunk but the last one
DigDepths == {0, Len(DigCells) - 1}

Init ==
    /\ chunks = NewWorld
    /\ op = Call("NewWorld", 0, 0, 0, BlockAir)
    /\ ret = BlockAir
    /\ remeshed = WindowKeys(0, 0, SpawnRadius)
    /\ generated = WindowKeys(0, 0, SpawnRadius)
    /\ evicted = {}
    /\ hist = << >>
    /\ edits = 0
    /\ probes = 0
    /\ buffers = SpawnGL.held
    /\ glLive = SpawnGL.live
    /\ glLog = SpawnGL.log
    /\ glBad = {}
    /\ GameStarts

\* gameWorld.UpdateChunks(cam.Position[0], cam.Position[2])
UpdateChunksFrom(grown, playerX, playerZ) ==
    LET pcx == PlayerChunk(playerX)
        pcz == PlayerChunk(playerZ)
        window == WindowKeys(pcx, pcz, RenderDistance)
        new == SelectSeq(window, LAMBDA k : ~Loaded(chunks, k))
        gl == Released(Uploaded(buffers, glLive, chunks, grown, Keys(new), 1),
                       grown, pcx, pcz)
    IN  /\ chunks' = Unload(grown, pcx, pcz)
        /\ op' = Call("UpdateChunks", playerX, 0, playerZ, BlockAir)
        /\ generated' = new
        /\ remeshed' = new
        /\ evicted' = (DOMAIN chunks \cup Keys(window)) \ DOMAIN chunks'
        /\ hist' = Append(hist, <<pcx, pcz>>)
        /\ buffers' = gl.held
        /\ glLive' = gl.live
        /\ glLog' = gl.log
        /\ glBad' = glBad \cup gl.bad

UpdateChunksStep ==
    /\ Len(hist) < MaxTicks
    /\ \E playerX \in PositionsX, playerZ \in PositionsZ :
          UpdateChunksFrom(Generated(chunks, playerX, playerZ), playerX, playerZ)
    /\ UNCHANGED <<ret, edits, probes, written, game>>

\* w.SetBlock(x, y, z, blockType)
SetBlockCall(x, y, z, blockType) ==
    /\ edits < MaxEdits
    /\ chunks' = SetBlock(chunks, x, y, z, blockType)
    /\ op' = Call("SetBlock", x, y, z, blockType)
    /\ remeshed' = IF SetBlockWrites(chunks, x, y, z)
                   THEN SetBlockRemesh(chunks, x, z) ELSE << >>
    /\ generated' = << >>
    /\ evicted' = {}
    /\ edits' = edits + 1
    /\ LET gl == Uploaded(buffers, glLive, chunks, chunks', Keys(remeshed'), 1)
       IN  buffers' = gl.held /\ glLive' = gl.live /\ glLog' = gl.log
    /\ written' = IF SetBlockWrites(chunks, x, y, z) THEN written \cup {<<x, y, z>>}
                  ELSE written
    /\ UNCHANGED <<ret, hist, probes, glBad, game>>

\* w.GetBlock(x, y, z)
GetBlockCall(x, y, z) ==
    /\ probes < MaxProbes
    /\ ret' = GetBlock(chunks, x, y, z)
    /\ op' = Call("GetBlock", x, y, z, BlockAir)
    /\ remeshed' = << >>
    /\ generated' = << >>
    /\ evicted' = {}
    /\ probes' = probes + 1
    /\ glLog' = {}
    /\ UNCHANGED <<chunks, hist, edits, buffers, glLive, glBad, written, game>>

SetBlockStep ==
    \E c \in StreamCells, t \in StreamTypes : SetBlockCall(c[1], c[2], c[3], t)

GetBlockStep ==
    \E c \in StreamCells : GetBlockCall(c[1], c[2], c[3])

Next == UpdateChunksStep \/ SetBlockStep \/ GetBlockStep

Spec == Init /\ [][Next]_vars

\* ------------------------------------------------------------------------
\* Editing: the world NewWorld built, before the first UpdateChunks, with
\* SetBlock and GetBlock called on every cell of EditCoords x EditYs
\* ------------------------------------------------------------------------
InitEdit ==
    /\ \E n \in DigDepths :
          /\ chunks = Dug(n)
          /\ op = IF n = 0 THEN Call("NewWorld", 0, 0, 0, BlockAir)
                  ELSE Call("SetBlock", DigCells[n][1], DigCells[n][2], DigCells[n][3],
                            BlockAir)
          /\ remeshed = IF n = 0 THEN WindowKeys(0, 0, SpawnRadius)
                        ELSE SetBlockRemesh(Dug(n - 1), DigCells[n][1], DigCells[n][3])
          /\ generated = IF n = 0 THEN WindowKeys(0, 0, SpawnRadius) ELSE << >>
    /\ ret = BlockAir
    /\ evicted = {}
    /\ hist = << >>
    /\ edits = 0
    /\ probes = 0
    /\ buffers = SpawnGL.held
    /\ glLive = SpawnGL.live
    /\ glLog = IF chunks = NewWorld THEN SpawnGL.log ELSE {}
    /\ glBad = {}
    /\ GameStarts

SetBlockEdit ==
    \E x \in EditCoords, y \in EditYs, z \in EditCoords, t \in EditTypes :
        SetBlockCall(x, y, z, t)

GetBlockEdit ==
    \E x \in EditCoords, y \in EditYs, z \in EditCoords : GetBlockCall(x, y, z)

NextEdit == SetBlockEdit \/ GetBlockEdit

SpecEdit == InitEdit /\ [][NextEdit]_vars

\* ------------------------------------------------------------------------
\* The callbacks NewInputManager registers with the window, and Player.Update
\* ------------------------------------------------------------------------
\* the largest yaw, either way, the mouse is followed to
MaxYaw == 360

\* mouse movements between two callbacks, in tens of pixels: a quarter turn
\* either way, and from level to the end of the pitch range
MouseOffsetsX == {-90, 0, 90}

MouseOffsetsY == {-89, 0, 89}

\* where the player stands, feet a tenth above the sand of chunk (0, 0):
\* inside one column of cells, or over the border of two (x, z or both)
StandPositions ==
    {<<x, 10 * 3 + 1, z>> : x \in {5, 9}, z \in {5, 9}}

\* InputManager.mouseCallback with the cursor moved by xoffset, yoffset
mouseCallback(xoffset, yoffset) ==
    /\ cam' = IF ~input.cursorLocked THEN cam
              ELSE ProcessMouseMovement(cam, xoffset, yoffset)
    /\ UNCHANGED <<world, input, plr, loop>>

\* Player.BreakBlock
BreakBlock ==
    IF ~plr.target.Hit THEN UNCHANGED vars
    ELSE SetBlockCall(plr.target.Pos[1], plr.target.Pos[2], plr.target.Pos[3], BlockAir)

\* Player.PlaceBlock
PlaceBlock(blockType) ==
    IF ~PlaceBlockCalls(plr) THEN UNCHANGED vars
    ELSE SetBlockCall(PlaceCell(plr.target)[1], PlaceCell(plr.target)[2],
                      PlaceCell(plr.target)[3], blockType)

\* InputManager.mouseButtonCallback, left button pressed
mouseButtonCallback == BreakBlock

\* InputManager.keyCallback, a number key pressed
keySelect(blockType) ==
    /\ input' = [input EXCEPT !.selectedBlock = blockType]
    /\ UNCHANGED <<world, cam, plr, loop>>

\* InputManager.keyCallback, Tab pressed
keyTab ==
    /\ input' = [input EXCEPT !.cursorLocked = ~input.cursorLocked]
    /\ UNCHANGED <<world, cam, plr, loop>>

\* InputManager.keyCallback, B pressed
keyB == PlaceBlock(input.selectedBlock)

\* InputManager.keyCallback, G pressed
keyG ==
    /\ input' = [input EXCEPT !.debugMode = ~input.debugMode]
    /\ plr' = IF ~input'.debugMode THEN TeleportToCamera(plr, cam) ELSE plr
    /\ cam' = IF ~input'.debugMode THEN [cam EXCEPT !.FrustumFrozen = FALSE] ELSE cam
    /\ UNCHANGED <<world, loop>>

\* InputManager.keyCallback, P pressed
keyP ==
    /\ cam' = IF input.debugMode
              THEN [cam EXCEPT !.FrustumFrozen = ~cam.FrustumFrozen] ELSE cam
    /\ UNCHANGED <<world, input, plr, loop>>

\* the player has no velocity and stands on a block: no movement key is
\* held in this model, and Player.Update leaves PhysicsPos where it is
AtRest == isGrounded(chunks, plr.PhysicsPos)

\* Player.Update of a player at rest, the loop going on at pc: the camera is
\* put at eye height, then updateTarget casts the ray from it
PlayerUpdate(pc) ==
    /\ AtRest
    /\ cam' = [cam EXCEPT !.Position = EyeOf(plr.PhysicsPos)]
    /\ plr' = [plr EXCEPT !.target = updateTarget(chunks, cam')]
    /\ loop' = [loop EXCEPT !.pc = pc]
    /\ UNCHANGED <<world, input>>

\* ------------------------------------------------------------------------
\* Input: the player stands on the spawn chunk; the callbacks fire in any
\* order, Player.Update runs between them while debug mode is off
\* ------------------------------------------------------------------------
InitInput ==
    /\ chunks = NewWorld
    /\ op = Call("NewWorld", 0, 0, 0, BlockAir)
    /\ ret = BlockAir
    /\ remeshed = WindowKeys(0, 0, SpawnRadius)
    /\ generated = WindowKeys(0, 0, SpawnRadius)
    /\ evicted = {}
    /\ hist = << >>
    /\ edits = 0
    /\ probes = 0
    /\ buffers = SpawnGL.held
    /\ glLive = SpawnGL.live
    /\ glLog = SpawnGL.log
    /\ glBad = {}
    /\ written = {}
    /\ input = NewInputManager
    /\ loop = [pc |-> "PollEvents", drawn |-> 0, frames |-> 0]
    /\ \E pos \in StandPositions :
          /\ cam = updateCameraVectors([NewCamera EXCEPT !.Position = EyeOf(pos)])
          /\ plr = [PhysicsPos |-> pos, target |-> updateTarget(NewWorld, cam)]

MouseStep ==
    \E xoffset \in MouseOffsetsX, yoffset \in MouseOffsetsY :
        /\ Abs(cam.Yaw + xoffset) <= MaxYaw
        /\ mouseCallback(xoffset, yoffset)

SelectStep == \E blockType \in {BlockDirt, BlockStone} : keySelect(blockType)

UpdateStep == ~input.debugMode /\ PlayerUpdate(loop.pc)

NextInput ==
    \/ MouseStep
    \/ SelectStep
    \/ keyTab
    \/ keyB
    \/ keyG
    \/ keyP
    \/ UpdateStep

SpecInput == InitInput /\ [][NextInput]_vars

\* ------------------------------------------------------------------------
\* The game loop of main: PollEvents, inputMgr.Update and p.Update, the
\* throttled UpdateChunks, RenderWorld over the chunks, SwapBuffers.  The
\* program has one thread (init locks it, no goroutine is started), and
\* GLFW runs the callbacks inside glfw.PollEvents, on the thread that calls
\* it.  UpdateChunks is taken in two steps, its generation loop and its
\* unload loops, and RenderWorld chunk by chunk, so that a step in between
\* can be asked for.
\* ------------------------------------------------------------------------
\* frames per run
MaxFrames == 2

\* (variant: a callback can run at any point of the loop)
DispatchingAnywhere == TRUE

\* the loop is inside glfw.PollEvents()
Dispatching == loop.pc = "PollEvents"

InitLoop ==
    /\ chunks = NewWorld
    /\ op = Call("NewWorld", 0, 0, 0, BlockAir)
    /\ ret = BlockAir
    /\ remeshed = WindowKeys(0, 0, SpawnRadius)
    /\ generated = WindowKeys(0, 0, SpawnRadius)
    /\ evicted = {}
    /\ hist = << >>
    /\ edits = 0
    /\ probes = 0
    /\ buffers = SpawnGL.held
    /\ glLive = SpawnGL.live
    /\ glLog = SpawnGL.log
    /\ glBad = {}
    /\ written = {}
    /\ input = NewInputManager
    /\ loop = [pc |-> "PollEvents", drawn |-> 0, frames |-> 0]
    /\ cam = updateCameraVectors([NewCamera EXCEPT !.Position = EyeOf(<<9, 31, 9>>)])
    /\ plr = [PhysicsPos |-> <<9, 31, 9>>, target |-> updateTarget(NewWorld, cam)]

\* callbacks GLFW runs for the events of one PollEvents call
LoopMouse ==
    /\ Dispatching
    /\ \E yoffset \in MouseOffsetsY \ {0} : mouseCallback(0, yoffset)

LoopButton == Dispatching /\ mouseButtonCallback

LoopKey == Dispatching /\ keyB

PollEventsReturns ==
    /\ loop.pc = "PollEvents"
    /\ loop' = [loop EXCEPT !.pc = "Update"]
    /\ UNCHANGED <<world, cam, input, plr>>

\* "if !inputMgr.IsDebugMode() { p.Update(deltaTime) }"
LoopUpdate ==
    /\ loop.pc = "Update"
    /\ IF input.debugMode
       THEN loop' = [loop EXCEPT !.pc = "UpdateChunks"] /\ UNCHANGED <<world, cam, input, plr>>
       ELSE PlayerUpdate("UpdateChunks")

\* less than chunkUpdateInterval since the last UpdateChunks
ChunkUpdateSkipped ==
    /\ loop.pc = "UpdateChunks"
    /\ loop' = [loop EXCEPT !.pc = "RenderWorld", !.drawn = 0]
    /\ UNCHANGED <<world, cam, input, plr>>

\* gameWorld.UpdateChunks(cam.Position[0], cam.Position[2]) up to the end of
\* its generation loop
UpdateChunksGenerate ==
    /\ loop.pc = "UpdateChunks"
    /\ Len(hist) < MaxTicks
    /\ LET playerX == cam.Position[1] \div 5
           playerZ == cam.Position[3] \div 5
           window == WindowKeys(PlayerChunk(playerX), PlayerChunk(playerZ), RenderDistance)
           new == SelectSeq(window, LAMBDA k : ~Loaded(chunks, k))
       IN  /\ chunks' = Generated(chunks, playerX, playerZ)
           /\ op' = Call("UpdateChunks", playerX, 0, playerZ, BlockAir)
           /\ generated' = new
           /\ remeshed' = new
           /\ evicted' = {}
           /\ hist' = Append(hist, <<PlayerChunk(playerX), PlayerChunk(playerZ)>>)
           /\ LET gl == Uploaded(buffers, glLive, chunks, chunks', Keys(new), 1)
              IN  buffers' = gl.held /\ glLive' = gl.live /\ glLog' = gl.log
    /\ loop' = [loop EXCEPT !.pc = "Unload"]
    /\ UNCHANGED <<ret, edits, probes, glBad, written, cam, input, plr>>

\* the unload scan and the delete loop of the same call
UpdateChunksUnload ==
    /\ loop.pc = "Unload"
    /\ LET pcx == hist[Len(hist)][1]
           pcz == hist[Len(hist)][2]
           gl == Released([held |-> buffers, live |-> glLive, log |-> glLog],
                          chunks, pcx, pcz)
       IN  /\ chunks' = Unload(chunks, pcx, pcz)
           /\ evicted' = DOMAIN chunks \ DOMAIN chunks'
           /\ buffers' = gl.held
           /\ glLive' = gl.live
           /\ glLog' = gl.log
           /\ glBad' = glBad \cup gl.bad
    /\ loop' = [loop EXCEPT !.pc = "RenderWorld", !.drawn = 0]
    /\ UNCHANGED <<op, ret, remeshed, generated, hist, edits, probes, written,
                   cam, input, plr>>

\* one round of "for _, chunk := range w.GetChunks()" in RenderWorld
RenderChunk ==
    /\ loop.pc = "RenderWorld"
    /\ loop.drawn < Cardinality(DOMAIN chunks)
    /\ loop' = [loop EXCEPT !.drawn = loop.drawn + 1]
    /\ UNCHANGED <<world, cam, input, plr>>

\* the end of RenderWorld, the highlight, the UI and window.SwapBuffers()
SwapBuffers ==
    /\ loop.pc = "RenderWorld"
    /\ loop.drawn = Cardinality(DOMAIN chunks)
    /\ loop.frames < MaxFrames
    /\ loop' = [pc |-> "PollEvents", drawn |-> 0, frames |-> loop.frames + 1]
    /\ UNCHANGED <<world, cam, input, plr>>

NextLoop ==
    \/ LoopMouse
    \/ LoopButton
    \/ LoopKey
    \/ PollEventsReturns
    \/ LoopUpdate
    \/ ChunkUpdateSkipped
    \/ UpdateChunksGenerate
    \/ UpdateChunksUnload
    \/ RenderChunk
    \/ SwapBuffers

SpecLoop == InitLoop /\ [][NextLoop]_vars

\* ------------------------------------------------------------------------
\* Terrain on its own: one column of generateChunk at the height of the
\* source, from noise samples given, or from a raw height given
\* ------------------------------------------------------------------------
\* ChunkHeight as the source has it
SourceChunkHeight == 256

\* what generateChunk computes for one (x, z): the inner loop body
generateColumn(ruggedness, jitter, raw) ==
    LET heightInt == GoDiv(ClampHeightTo(raw, SourceChunkHeight), 1000)
    IN  [ruggedness |-> ruggedness, jitter |-> jitter,
         amplitude |-> Amplitude(ruggedness), raw |-> raw, heightInt |-> heightInt,
         Blocks |-> [y \in 0 .. SourceChunkHeight - 1 |->
                        ColumnBlock(y, heightInt, jitter)] @@ << >>]

\* noise samples, in thousandths: the normalized field gives values in [0, 1]
Ruggednesses == {0, 100, 199, 200, 201, 400, 599, 600, 601, 800, 1000}

Samples == {0, 500, 1000}

\* raw heights, in thousandths, from below the lower clamp to above the
\* chunk
RawHeights ==
    {-5000, 0, 1999, 2000, 2999, 33000, 33999, 34000, 60000, 73500, 79000, 81000,
     85000, 95000, 102000, 250999, 251000, 251001, 256000, 300000}

InitTerrain ==
    /\ chunks = EmptyStore
    /\ op = Call("NewWorld", 0, 0, 0, BlockAir)
    /\ ret = BlockAir
    /\ remeshed = << >>
    /\ generated = << >>
    /\ evicted = {}
    /\ hist = << >>
    /\ edits = 0
    /\ probes = 0
    /\ buffers = << >>
    /\ glLive = {}
    /\ glLog = {}
    /\ glBad = {}
    /\ GameStarts

\* a column generated from noise samples
ColumnStep ==
    /\ \E ruggedness \in Ruggednesses, jitter \in Samples, m \in Samples,
          baseElevation \in Samples, detail \in {0, 1000} :
          ret' = generateColumn(ruggedness, jitter,
                                RawHeightOf(ruggedness, m, baseElevation, detail))
    /\ op' = Call("generateColumn", 0, 0, 0, BlockAir)
    /\ UNCHANGED <<chunks, remeshed, generated, evicted, hist, edits, probes,
                   buffers, glLive, glLog, glBad, written, game>>

\* a column generated from a raw height, whatever the noise would give
ClampStep ==
    /\ \E raw \in RawHeights, jitter \in Samples :
          ret' = generateColumn(0, jitter, raw)
    /\ op' = Call("generateColumn", 0, 0, 0, BlockAir)
    /\ UNCHANGED <<chunks, remeshed, generated, evicted, hist, edits, probes,
                   buffers, glLive, glLog, glBad, written, game>>

NextTerrain == ColumnStep \/ ClampStep

SpecTerrain == InitTerrain /\ [][NextTerrain]_vars

\* ------------------------------------------------------------------------
\* Meshing on its own: generateMesh called on the chunk at (0, 0) of a store
\* that holds that chunk and any of its four lateral neighbours, every
\* voxel array drawn from Fills
\* ------------------------------------------------------------------------
Uniform(t) == [v \in Voxels |-> t]

\* stone with air pockets: on each lateral boundary at a different place,
\* and one inside
PitCells ==
    {<<0, 1, 1>>, <<ChunkSize - 1, 2, 1>>, <<1, 3, 0>>, <<1, 4, ChunkSize - 1>>,
     <<1, 1, 1>>, <<0, ChunkHeight - 1, 0>>}

Pitted == [v \in Voxels |-> IF v \in PitCells THEN BlockAir ELSE BlockStone]

Fills ==
    {Uniform(BlockAir), Uniform(BlockStone), Uniform(BlockDirt), Pitted,
     generateChunk(0, 0).Blocks}

MeshNeighbours == <<<<-1, 0>>, <<1, 0>>, <<0, -1>>, <<0, 1>>>>

\* a chunk as generateChunk leaves it, with the voxel array given
ChunkOf(key, blocks) == [X |-> key[1], Z |-> key[2], Blocks |-> blocks, Mesh |-> NoMesh]

InitMesh ==
    /\ \E present \in SUBSET {1, 2, 3, 4}, centre \in Fills,
          around \in [{1, 2, 3, 4} -> Fills \ {Uniform(BlockDirt)}] :
          /\ \A i \in {1, 2, 3, 4} \ present : around[i] = Uniform(BlockAir)
          /\ chunks = [k \in {<<0, 0>>} \cup {MeshNeighbours[i] : i \in present} |->
                         IF k = <<0, 0>> THEN ChunkOf(k, centre)
                         ELSE ChunkOf(k, around[CHOOSE i \in present :
                                                   MeshNeighbours[i] = k])]
    /\ op = Call("NewChunk", 0, 0, 0, BlockAir)
    /\ ret = BlockAir
    /\ remeshed = << >>
    /\ generated = << >>
    /\ evicted = {}
    /\ hist = << >>
    /\ edits = 0
    /\ probes = 0
    /\ buffers = << >>
    /\ glLive = {}
    /\ glLog = {}
    /\ glBad = {}
    /\ GameStarts

\* chunk.generateMesh(w) on the chunk at (0, 0)
MeshStep ==
    /\ op.name = "NewChunk"
    /\ chunks' = MeshChunk(chunks, <<0, 0>>)
    /\ op' = Call("generateMesh", 0, 0, 0, BlockAir)
    /\ remeshed' = <<<<0, 0>>>>
    /\ LET gl == Uploaded(buffers, glLive, chunks, chunks', {<<0, 0>>}, 1)
       IN  buffers' = gl.held /\ glLive' = gl.live /\ glLog' = gl.log
    /\ UNCHANGED <<ret, generated, evicted, hist, edits, probes, glBad, written, game>>

NextMesh == MeshStep

SpecMesh == InitMesh /\ [][NextMesh]_vars

\* ------------------------------------------------------------------------
\* Properties
\* ------------------------------------------------------------------------
YInRange(y) == 0 <= y /\ y < ChunkHeight

\* the chunk that owns world column (x, z), by floor division
Owner(x, z) == <<x \div ChunkSize, z \div ChunkSize>>

\* the index inside the owning chunk, by floor remainder
Local(x, y, z) == <<x % ChunkSize, y, z % ChunkSize>>

\* the last call was a SetBlock that got to write
Wrote == op.name = "SetBlock" /\ YInRange(op.y) /\ Owner(op.x, op.z) \in DOMAIN chunks

\* C1: GetBlock and SetBlock resolve a world coordinate, negative ones too,
\* to the chunk floor(x/ChunkSize), floor(z/ChunkSize) and to the local index
\* x mod ChunkSize, z mod ChunkSize in [0, ChunkSize), so that
\* chunk*ChunkSize + local is the coordinate; the voxel written or read is
\* that one.
C1_FloorResolution ==
    op.name \in {"GetBlock", "SetBlock"} =>
        /\ <<ResolveChunk(op.x), ResolveChunk(op.z)>> = Owner(op.x, op.z)
        /\ <<ResolveLocal(op.x), op.y, ResolveLocal(op.z)>> = Local(op.x, op.y, op.z)
        /\ ResolveLocal(op.x) \in 0 .. ChunkSize - 1
        /\ ResolveLocal(op.z) \in 0 .. ChunkSize - 1
        /\ ResolveChunk(op.x) * ChunkSize + ResolveLocal(op.x) = op.x
        /\ ResolveChunk(op.z) * ChunkSize + ResolveLocal(op.z) = op.z
        /\ (YInRange(op.y) /\ Owner(op.x, op.z) \in DOMAIN chunks =>
              LET voxel == chunks[Owner(op.x, op.z)].Blocks[Local(op.x, op.y, op.z)]
              IN  IF op.name = "SetBlock" THEN voxel = op.t ELSE ret = voxel)

\* (-1, y, -1) was written: chunk (-1, -1), local (ChunkSize-1, y, ChunkSize-1)
C1_Witness ==
    /\ op.name = "SetBlock" /\ op.x = -1 /\ op.z = -1 /\ YInRange(op.y)
    /\ op.t = BlockDirt
    /\ <<-1, -1>> \in DOMAIN chunks
    /\ chunks[<<-1, -1>>].Blocks[<<ChunkSize - 1, op.y, ChunkSize - 1>>] = BlockDirt

\* C2 as stated: for every coordinate with y in range and every type T,
\* SetBlock(x,y,z,T) followed by GetBlock(x,y,z) returns T; GetBlock returns
\* Air for every y out of range whatever was set before.
C2_AsStated ==
    /\ (op.name = "SetBlock" /\ YInRange(op.y) =>
            GetBlock(chunks, op.x, op.y, op.z) = op.t)
    /\ \A x \in EditCoords, z \in EditCoords, y \in EditYs :
            ~YInRange(y) => GetBlock(chunks, x, y, z) = BlockAir

\* C2 (amended): for every coordinate with y in range whose owning chunk is
\* loaded and every type T, SetBlock(x,y,z,T) followed by GetBlock(x,y,z)
\* returns T; GetBlock returns Air for every y out of range whatever was set
\* before.
C2_SetThenGet ==
    /\ (Wrote => GetBlock(chunks, op.x, op.y, op.z) = op.t)
    /\ \A x \in EditCoords, z \in EditCoords, y \in EditYs :
            ~YInRange(y) => GetBlock(chunks, x, y, z) = BlockAir

\* a non-Air block was set at a negative coordinate of a loaded chunk
C2_Witness ==
    /\ Wrote /\ op.t = BlockStone /\ op.x < 0 /\ op.x % ChunkSize # op.z % ChunkSize
    /\ op.y = 1
    /\ GetBlock(chunks, op.x, op.y, op.z) = BlockStone
    /\ GetBlock(chunks, op.z, op.y, op.x) # BlockStone

\* C3: GetBlock returns Air and changes nothing whenever y is out of range
\* or no chunk is loaded at the owning chunk position.
C3_GetBlockAir ==
    [][op'.name = "GetBlock"
         /\ (~YInRange(op'.y) \/ Owner(op'.x, op'.z) \notin DOMAIN chunks)
       => ret' = BlockAir /\ chunks' = chunks]_vars

\* GetBlock was called on a cell of a chunk that is not loaded, after an edit
C3_Witness ==
    /\ op.name = "GetBlock" /\ YInRange(op.y)
    /\ Owner(op.x, op.z) \notin DOMAIN chunks
    /\ edits > 0
    /\ ret = BlockAir

\* C4: SetBlock is a no-op when y is out of range or the owning chunk is not
\* loaded: no voxel, no chunk, no mesh changes and no mesh is rebuilt.
C4_SetBlockNoOp ==
    [][op'.name = "SetBlock"
         /\ (~YInRange(op'.y) \/ Owner(op'.x, op'.z) \notin DOMAIN chunks)
       => chunks' = chunks /\ remeshed' = << >>]_vars

\* SetBlock was called with a non-Air type on a cell of a chunk not loaded
C4_Witness ==
    /\ op.name = "SetBlock" /\ YInRange(op.y) /\ op.t # BlockAir
    /\ Owner(op.x, op.z) \notin DOMAIN chunks
    /\ edits > 0
    /\ remeshed = << >>

\* the vertex count a chunk is drawn with: none without a mesh
MeshCount(c) == IF c.Mesh.isNil THEN 0 ELSE c.Mesh.VertexCount

\* C5: when SetBlock returns after a write, the vertex count stored for the
\* mutated chunk is the count meshing its current voxels against the current
\* store gives, also when no face is left.
C5_MeshFresh ==
    Wrote =>
        MeshCount(chunks[Owner(op.x, op.z)])
            = VertexTotal(chunks[Owner(op.x, op.z)], chunks)

\* the keys of the loaded lateral neighbours whose boundary the cell is on
BoundaryNeighbours(x, z) ==
    {k \in DOMAIN chunks :
        \/ k = <<(x \div ChunkSize) - 1, z \div ChunkSize>> /\ x % ChunkSize = 0
        \/ k = <<(x \div ChunkSize) + 1, z \div ChunkSize>> /\ x % ChunkSize = ChunkSize - 1
        \/ k = <<x \div ChunkSize, (z \div ChunkSize) - 1>> /\ z % ChunkSize = 0
        \/ k = <<x \div ChunkSize, (z \div ChunkSize) + 1>> /\ z % ChunkSize = ChunkSize - 1}

\* C6: a SetBlock that writes re-meshes the owning chunk and exactly the
\* loaded lateral neighbours whose shared boundary the voxel lies on, each
\* once; a write on no boundary re-meshes the owning chunk only.
C6_RemeshSet ==
    Wrote =>
        /\ {remeshed[i] : i \in DOMAIN remeshed}
               = {Owner(op.x, op.z)} \cup BoundaryNeighbours(op.x, op.z)
        /\ Len(remeshed) = Cardinality({remeshed[i] : i \in DOMAIN remeshed})
        /\ (op.x % ChunkSize \notin {0, ChunkSize - 1}
              /\ op.z % ChunkSize \notin {0, ChunkSize - 1}
            => remeshed = <<Owner(op.x, op.z)>>)

\* a write at local x = 0 and local z = ChunkSize-1 whose x-neighbour is not
\* loaded and whose z-neighbour is: the owner and the z-neighbour are meshed
C6_Witness ==
    /\ Wrote /\ edits > 0
    /\ op.x % ChunkSize = 0 /\ op.z % ChunkSize = ChunkSize - 1
    /\ <<(op.x \div ChunkSize) - 1, op.z \div ChunkSize>> \notin DOMAIN chunks
    /\ remeshed = <<Owner(op.x, op.z), <<op.x \div ChunkSize, (op.z \div ChunkSize) + 1>>>>

\* the observer chunk the last UpdateChunks call worked with
ObserverChunk == hist[Len(hist)]

\* C7: UpdateChunks takes the observer chunk by floor division of the
\* position by ChunkSize on each axis, negative positions too: the chunk
\* GetBlock and SetBlock resolve for that coordinate.
C7_ObserverFloor ==
    op.name = "UpdateChunks" =>
        /\ ObserverChunk = Owner(MathFloor(op.x), MathFloor(op.z))
        /\ ObserverChunk = <<ResolveChunk(MathFloor(op.x)), ResolveChunk(MathFloor(op.z))>>

\* C8: after UpdateChunks every chunk coordinate within RenderDistance of
\* the observer chunk on both axes is in the store.
C8_WindowLoaded ==
    op.name = "UpdateChunks" =>
        \A x \in ObserverChunk[1] - RenderDistance .. ObserverChunk[1] + RenderDistance,
           z \in ObserverChunk[2] - RenderDistance .. ObserverChunk[2] + RenderDistance :
            <<x, z>> \in DOMAIN chunks

\* the square of the Euclidean chunk-grid distance
Dist2(key, from) ==
    (key[1] - from[1]) * (key[1] - from[1]) + (key[2] - from[2]) * (key[2] - from[2])

Reach2 == (RenderDistance + EvictionMargin) * (RenderDistance + EvictionMargin)

\* C9: after UpdateChunks no loaded chunk is farther than RenderDistance+2
\* (Euclidean, in chunks) from the observer chunk the call computed; every
\* chunk loaded before the call within that distance is still loaded; a
\* chunk that was at distance RenderDistance+2+1 is gone.
C9_Eviction ==
    [][op'.name = "UpdateChunks" =>
         /\ \A k \in DOMAIN chunks' : Dist2(k, hist'[Len(hist')]) <= Reach2
         /\ \A k \in DOMAIN chunks :
               Dist2(k, hist'[Len(hist')]) <= Reach2 => k \in DOMAIN chunks'
         /\ \A k \in DOMAIN chunks :
               Dist2(k, hist'[Len(hist')])
                   = (RenderDistance + EvictionMargin + 1) * (RenderDistance + EvictionMargin + 1)
               => k \notin DOMAIN chunks']_vars

\* a call evicted a chunk at distance exactly RenderDistance+3 and kept
\* chunks, loaded before it, at distance exactly RenderDistance and
\* RenderDistance+2
C9_Witness ==
    /\ op.name = "UpdateChunks"
    /\ \E k \in evicted :
          /\ Dist2(k, ObserverChunk)
               = (RenderDistance + EvictionMargin + 1) * (RenderDistance + EvictionMargin + 1)
          /\ k \notin {generated[i] : i \in DOMAIN generated}
    /\ \E k \in DOMAIN chunks \ {generated[i] : i \in DOMAIN generated} :
          Dist2(k, ObserverChunk) = RenderDistance * RenderDistance
    /\ \E k \in DOMAIN chunks \ {generated[i] : i \in DOMAIN generated} :
          Dist2(k, ObserverChunk) = Reach2

\* C10: when the observer goes back and forth by one chunk, the third and
\* later UpdateChunks calls call generateChunk for no chunk: nothing is
\* destroyed and generated again tick after tick.
C10_NoThrash ==
    /\ op.name = "UpdateChunks"
    /\ Len(hist) >= 3
    /\ hist[Len(hist)] = hist[Len(hist) - 2]
    /\ Dist2(hist[Len(hist)], hist[Len(hist) - 1]) = 1
    => generated = << >>

\* C11: no chunk is generated and evicted within one UpdateChunks call:
\* every chunk the generation loop of a call inserted is in the store when
\* the call returns.
C11_NoGenerateAndEvict ==
    op.name = "UpdateChunks" =>
        /\ Keys(generated) \cap evicted = {}
        /\ Keys(generated) \subseteq DOMAIN chunks

C13_NoRegeneration ==
    [][op'.name = "UpdateChunks" =>
         /\ \A k \in DOMAIN chunks' : chunks'[k].X = k[1] /\ chunks'[k].Z = k[2]
         /\ Keys(generated') \cap DOMAIN chunks = {}
         /\ Len(generated') = Cardinality(Keys(generated'))
         /\ \A k \in DOMAIN chunks \cap DOMAIN chunks' :
               chunks'[k].Blocks = chunks[k].Blocks]_vars

\* UpdateChunks ran over a window that holds a chunk SetBlock had written
\* to, and the written voxel is still there
C13_Witness ==
    /\ op.name = "UpdateChunks" /\ edits > 0
    /\ Dist2(<<-1, -1>>, ObserverChunk) <= RenderDistance * RenderDistance
    /\ chunks[<<-1, -1>>].Blocks[<<ChunkSize - 1, 1, ChunkSize - 1>>] = BlockAir
    /\ generateChunk(-1, -1).Blocks[<<ChunkSize - 1, 1, ChunkSize - 1>>] # BlockAir

\* C16: a loaded chunk whose voxels are all Air has an empty mesh (none, or
\* vertex count 0) and is not drawn, also when SetBlock calls emptied it.
C16_AirChunkNotDrawn ==
    \A k \in DOMAIN chunks :
        (\A v \in Voxels : chunks[k].Blocks[v] = BlockAir)
            => MeshCount(chunks[k]) = 0 /\ ~Drawn(chunks[k])

\* the lateral neighbours of a chunk coordinate
Lateral(k) ==
    {<<k[1] - 1, k[2]>>, <<k[1] + 1, k[2]>>, <<k[1], k[2] - 1>>, <<k[1], k[2] + 1>>}

\* C20: UpdateChunks rebuilds the mesh of no chunk that was loaded before
\* the call: whether a neighbour is loaded or evicted, a chunk that stays
\* keeps its mesh and its vertex count.
C20_NoRemeshOnLoad ==
    [][op'.name = "UpdateChunks" =>
         /\ Keys(remeshed') \cap DOMAIN chunks = {}
         /\ \A k \in DOMAIN chunks \cap DOMAIN chunks' :
               chunks'[k].Mesh = chunks[k].Mesh]_vars

\* after a call, a chunk loaded before it has a new neighbour and a vertex
\* count that meshing it now would not give, and another chunk that stayed
\* has lost a neighbour that was loaded before the call
C20_Witness ==
    /\ op.name = "UpdateChunks"
    /\ \E k \in DOMAIN chunks \ Keys(generated) :
          /\ Lateral(k) \cap Keys(generated) \cap DOMAIN chunks # {}
          /\ MeshCount(chunks[k]) # VertexTotal(chunks[k], chunks)
    /\ \E k \in DOMAIN chunks \ Keys(generated) :
          Lateral(k) \cap (evicted \ Keys(generated)) # {}

\* every voxel of the chunk is of one block type other than Air
FullySolid(c) == \A v \in Voxels : c.Blocks[v] # BlockAir

OneType(c) == \A v, w \in Voxels : c.Blocks[v] = c.Blocks[w]

\* generateMesh has just run on the chunk at (0, 0)
Meshed == op.name = "generateMesh"

\* C14 as stated: a chunk of one solid type with its four lateral
\* neighbours loaded and fully solid is meshed with top-facing quads only,
\* ChunkSize * ChunkSize * 6 vertices.
C14_AsStated ==
    Meshed /\ FullySolid(chunks[<<0, 0>>]) /\ OneType(chunks[<<0, 0>>])
      /\ (\A k \in Lateral(<<0, 0>>) : k \in DOMAIN chunks /\ FullySolid(chunks[k]))
    => /\ MeshCount(chunks[<<0, 0>>]) = ChunkSize * ChunkSize * 6
       /\ \A vf \in Faces(chunks[<<0, 0>>], chunks) : vf[2] = 4

\* C14 (amended): such a chunk is meshed with the top-facing quads of its
\* top layer and the bottom-facing quads of its bottom layer and no lateral
\* quad, 2 * ChunkSize * ChunkSize * 6 vertices.
C14_SolidEnclosed ==
    Meshed /\ FullySolid(chunks[<<0, 0>>]) /\ OneType(chunks[<<0, 0>>])
      /\ (\A k \in Lateral(<<0, 0>>) : k \in DOMAIN chunks /\ FullySolid(chunks[k]))
    => /\ MeshCount(chunks[<<0, 0>>]) = 2 * ChunkSize * ChunkSize * 6
       /\ Faces(chunks[<<0, 0>>], chunks)
             = {vf \in Voxels \X {4, 5} :
                   \/ vf[2] = 4 /\ vf[1][2] = ChunkHeight - 1
                   \/ vf[2] = 5 /\ vf[1][2] = 0}

\* a chunk of dirt between four chunks of stone has been meshed
C14_Witness ==
    /\ Meshed
    /\ chunks[<<0, 0>>].Blocks = Uniform(BlockDirt)
    /\ \A k \in Lateral(<<0, 0>>) :
          k \in DOMAIN chunks /\ chunks[k].Blocks = Uniform(BlockStone)
    /\ ~chunks[<<0, 0>>].Mesh.isNil

\* the faces of the bounding box of a chunk: those that look out of it
BoxFaces ==
    {vf \in Voxels \X (0 .. 5) :
        LET n == FaceCell(vf[1][1], vf[1][2], vf[1][3], vf[2])
        IN  n \notin Voxels}

\* C15: a fully solid chunk meshed with none of its lateral neighbours
\* loaded shows every face of its bounding box, the four sides, the top and
\* the bottom, and no face inside: 6 * (2 * ChunkSize * ChunkSize
\* + 4 * ChunkSize * ChunkHeight) vertices.
C15_SolidAlone ==
    Meshed /\ FullySolid(chunks[<<0, 0>>]) /\ DOMAIN chunks = {<<0, 0>>}
    => /\ MeshCount(chunks[<<0, 0>>])
             = 6 * (2 * ChunkSize * ChunkSize + 4 * ChunkSize * ChunkHeight)
       /\ Faces(chunks[<<0, 0>>], chunks) = BoxFaces

\* a chunk of stone with no neighbour loaded has been meshed
C15_Witness ==
    /\ Meshed
    /\ DOMAIN chunks = {<<0, 0>>}
    /\ chunks[<<0, 0>>].Blocks = Uniform(BlockStone)
    /\ MeshCount(chunks[<<0, 0>>]) > 2 * ChunkSize * ChunkSize * 6

\* is the cell at offset (x, y, z) from the origin of the chunk at key open,
\* read off the world: above or below it, or in a chunk that is not loaded,
\* or an Air voxel of the chunk that owns it
Open(key, x, y, z) ==
    \/ ~YInRange(y)
    \/ LET wx == key[1] * ChunkSize + x
           wz == key[2] * ChunkSize + z
       IN  \/ Owner(wx, wz) \notin DOMAIN chunks
           \/ chunks[Owner(wx, wz)].Blocks[Local(wx, y, wz)] = BlockAir

\* the six directions, by face number
Direction(face) ==
    <<<<0, 0, 1>>, <<0, 0, -1>>, <<1, 0, 0>>, <<-1, 0, 0>>, <<0, 1, 0>>, <<0, -1, 0>>>>[face + 1]

\* the (voxel, direction) pairs of the chunk at key that are to be drawn
OpenFaces(key) ==
    {vf \in Voxels \X (0 .. 5) :
        /\ chunks[key].Blocks[vf[1]] # BlockAir
        /\ Open(key, vf[1][1] + Direction(vf[2])[1], vf[1][2] + Direction(vf[2])[2],
                vf[1][3] + Direction(vf[2])[3])}

\* C17: generateMesh makes one quad of 6 vertices for each pair of a non-Air
\* voxel and a direction whose adjacent cell is transparent, and nothing
\* else; a cell is transparent iff its y is out of range, or it is Air in
\* this chunk, or it lies beside the chunk and the neighbour chunk there is
\* absent or has Air at the matching boundary voxel; the vertex count stored
\* is a multiple of 6.
C17_FaceCulling ==
    Meshed =>
        /\ Faces(chunks[<<0, 0>>], chunks) = OpenFaces(<<0, 0>>)
        /\ VertexTotal(chunks[<<0, 0>>], chunks) = 6 * Cardinality(OpenFaces(<<0, 0>>))
        /\ MeshCount(chunks[<<0, 0>>]) = 6 * Cardinality(OpenFaces(<<0, 0>>))
        /\ MeshCount(chunks[<<0, 0>>]) % 6 = 0

\* a pitted chunk has been meshed between a pitted neighbour, a solid one,
\* an empty one and a missing one
C17_Witness ==
    /\ Meshed
    /\ chunks[<<0, 0>>].Blocks = Pitted
    /\ <<-1, 0>> \in DOMAIN chunks /\ chunks[<<-1, 0>>].Blocks = Pitted
    /\ <<1, 0>> \in DOMAIN chunks /\ chunks[<<1, 0>>].Blocks = Uniform(BlockStone)
    /\ <<0, -1>> \in DOMAIN chunks /\ chunks[<<0, -1>>].Blocks = Uniform(BlockAir)
    /\ <<0, 1>> \notin DOMAIN chunks
    /\ MeshCount(chunks[<<0, 0>>]) > 0

\* the GL calls of the last call with the given name
GLCalls(log, call) == {e \in log : e.call = call}

\* C18: when UpdateChunks evicts a chunk that has a mesh, the vertex array
\* and the buffer of the mesh are both deleted before the chunk is taken
\* out of the store, for every such chunk; a chunk without a mesh is taken
\* out with no GL delete call.
C18_EvictionReleases ==
    [][op'.name = "UpdateChunks" =>
         \A k \in evicted' :
             LET made == {e.name : e \in {g \in GLCalls(glLog', "GenVertexArrays") :
                                                g.name[1] = k}}
                 ids == IF k \in DOMAIN chunks
                        THEN (IF chunks[k].Mesh.isNil THEN {} ELSE {buffers[k]})
                        ELSE made
                 out == {e \in GLCalls(glLog', "delete") : e.name = k}
             IN  /\ k \notin DOMAIN chunks'
                 /\ Cardinality(out) = 1
                 /\ \A id \in ids, o \in out :
                       /\ \E e \in GLCalls(glLog', "DeleteVertexArrays") :
                             e.name = id /\ e.step < o.step
                       /\ \E e \in GLCalls(glLog', "DeleteBuffers") :
                             e.name = id /\ e.step < o.step
                       /\ GLNames(id) \cap glLive' = {}
                 /\ ids = {} =>
                       \A e \in GLCalls(glLog', "DeleteVertexArrays")
                                 \cup GLCalls(glLog', "DeleteBuffers") : e.name[1] # k]_vars

\* a call evicted a chunk that was loaded, with a mesh, before it: both
\* deletes are in the log ahead of the removal
C18_Witness ==
    /\ op.name = "UpdateChunks"
    /\ \E k \in evicted \ Keys(generated) :
          /\ GLEvent("DeleteVertexArrays", <<k, 0>>, 2) \in glLog
          /\ GLEvent("DeleteBuffers", <<k, 0>>, 2) \in glLog
          /\ GLEvent("delete", k, 3) \in glLog
          /\ <<"VAO", <<k, 0>>>> \notin glLive
          /\ k \notin DOMAIN chunks

\* the names held by loaded chunks are the live names, each held once, and
\* no name was deleted while not live
BuffersBalanced ==
    /\ DOMAIN buffers = {k \in DOMAIN chunks : ~chunks[k].Mesh.isNil}
    /\ glLive = UNION {GLNames(buffers[k]) : k \in DOMAIN buffers}
    /\ \A j, k \in DOMAIN buffers : buffers[j] = buffers[k] => j = k
    /\ glBad = {}

\* a call generates a pair only for a chunk that had no mesh and now has a
\* mesh with vertices, and a chunk that keeps its mesh keeps its pair
BuffersReused ==
    /\ \A e \in GLCalls(glLog', "GenVertexArrays") \cup GLCalls(glLog', "GenBuffers") :
          /\ MeshBefore(chunks, e.name[1]).isNil
          /\ e.name[1] \in DOMAIN chunks' => chunks'[e.name[1]].Mesh.VertexCount > 0
    /\ \A k \in DOMAIN buffers \cap DOMAIN chunks' :
          k \in DOMAIN buffers' /\ buffers'[k] = buffers[k]

\* C19: over NewWorld, UpdateChunks and SetBlock calls no GL buffer leaks
\* and none is deleted twice: re-meshing a chunk that has a mesh reuses its
\* pair and generates none, a pair is generated only when a chunk without a
\* mesh gets its first mesh with vertices, and the pairs generated and not
\* deleted are always the pairs the loaded chunks hold.
C19_BuffersBalanced == []BuffersBalanced /\ [][BuffersReused]_vars

\* SetBlock re-meshed a chunk with a mesh after two UpdateChunks calls, the
\* second with the observer three chunks from the first, so that it
\* generated pairs and deleted pairs the first had generated
C19_Witness ==
    /\ Wrote /\ edits > 0 /\ Len(hist) >= 2
    /\ remeshed # << >> /\ glLog = {}
    /\ buffers[Owner(op.x, op.z)] = <<Owner(op.x, op.z), 0>>
    /\ Dist2(hist[1], hist[2]) = 9
    /\ Cardinality(glLive) = 2 * Cardinality(DOMAIN chunks)
    /\ \E k \in DOMAIN chunks : k \notin DOMAIN NewWorld

\* a column has just been generated
Columned == op.name = "generateColumn"

\* C21: for every raw column height, below 2 and above ChunkHeight too, the
\* integer height the column is filled to lies in [2, ChunkHeight-5], and
\* the column written has the indices [0, ChunkHeight) and no other.
C21_HeightClamped ==
    Columned =>
        /\ ret.heightInt \in 2 .. SourceChunkHeight - 5
        /\ DOMAIN ret.Blocks = 0 .. SourceChunkHeight - 1
        /\ ret.Blocks[ret.heightInt] # BlockAir
        /\ (ret.raw \in 2000 .. (SourceChunkHeight - 5) * 1000
               => ret.heightInt = ret.raw \div 1000)

\* a raw height above the chunk was clamped to ChunkHeight-5
C21_Witness ==
    /\ Columned
    /\ ret.raw > SourceChunkHeight * 1000
    /\ ret.heightInt = SourceChunkHeight - 5

\* C22: in every generated column the voxel at y = 0 is Stone, every voxel
\* with 1 <= y <= height is not Air and every voxel above height is Air.
C22_SolidRun ==
    Columned =>
        /\ ret.Blocks[0] = BlockStone
        /\ \A y \in 1 .. SourceChunkHeight - 1 :
              IF y <= ret.heightInt THEN ret.Blocks[y] # BlockAir
              ELSE ret.Blocks[y] = BlockAir

\* a column from noise samples with a mountain on it: grass or stone on
\* top, air above
C22_Witness ==
    /\ Columned
    /\ ret.ruggedness > 600 /\ ret.raw = RawHeightOf(ret.ruggedness, 1000, 500, 1000)
    /\ ret.heightInt > 72
    /\ ret.Blocks[ret.heightInt] \in {BlockStone, BlockSnow}
    /\ ret.Blocks[ret.heightInt + 1] = BlockAir

\* the voxels of the band under the surface
Band(heightInt) == {y \in 1 .. SourceChunkHeight - 1 : heightInt - 4 < y /\ y < heightInt}

\* C23 as stated: every voxel of the band under the surface is Sand when
\* the surface voxel is Sand and Dirt otherwise, and every voxel below the
\* band is Stone.
C23_AsStated ==
    Columned =>
        /\ \A y \in Band(ret.heightInt) :
              ret.Blocks[y] = IF ret.Blocks[ret.heightInt] = BlockSand THEN BlockSand
                              ELSE BlockDirt
        /\ \A y \in 0 .. ret.heightInt - 4 : ret.Blocks[y] = BlockStone

\* C23 (amended): every voxel of the band under the surface is Stone when
\* its y is above 80, and otherwise Sand when the surface voxel is Sand and
\* Dirt when it is not; every voxel below the band is Stone.
C23_BandBiome ==
    Columned =>
        /\ \A y \in Band(ret.heightInt) :
              ret.Blocks[y] = IF y > 80 THEN BlockStone
                              ELSE IF ret.Blocks[ret.heightInt] = BlockSand THEN BlockSand
                              ELSE BlockDirt
        /\ \A y \in 0 .. ret.heightInt - 4 : ret.Blocks[y] = BlockStone

\* a column whose band crosses y = 80: dirt up to 80, stone above
C23_Witness ==
    /\ Columned
    /\ ret.heightInt = 82
    /\ ret.Blocks[80] = BlockDirt
    /\ ret.Blocks[81] = BlockStone
    /\ ret.Blocks[ret.heightInt - 4] = BlockStone

\* C24: the amplitude is continuous in the ruggedness: at the band edges
\* 0.2 and 0.6 the two formulas that meet give the same amplitude, so one
\* thousandth above an edge the amplitude is no more than the steepest
\* slope (100 / 0.4) away from the amplitude at the edge.
C24_AmplitudeContinuous ==
    Columned /\ ret.ruggedness \in {200, 600} =>
        /\ Amplitude(ret.ruggedness + 1) - ret.amplitude <= 250
        /\ ret.amplitude - Amplitude(ret.ruggedness + 1) <= 250

\* C27 as stated: in every state reached through NewWorld, UpdateChunks and
\* SetBlock, the vertex count stored for each loaded chunk is the count
\* generateMesh computes for it from the current store.
C27_MeshesCurrent ==
    \A k \in DOMAIN chunks : MeshCount(chunks[k]) = VertexTotal(chunks[k], chunks)

\* the voxels GetBlock returns for the chunk at key are the ones
\* generateChunk computes for the key
Regenerated(key) ==
    [v \in Voxels |-> GetBlock(chunks, key[1] * ChunkSize + v[1], v[2],
                               key[2] * ChunkSize + v[3])]
        = generateChunk(key[1], key[2]).Blocks

\* C28: a chunk UpdateChunks loads holds the terrain generator's voxels,
\* whatever SetBlock wrote to a chunk of that key that was evicted before:
\* GetBlock on every voxel of it returns the generator's value.
C28_EditsLost ==
    op.name = "UpdateChunks" =>
        \A k \in Keys(generated) \cap DOMAIN chunks : Regenerated(k)

\* a cell SetBlock emptied, in a chunk that has been evicted since and that
\* the last call loaded again: the cell is solid again
C28_Witness ==
    /\ op.name = "UpdateChunks"
    /\ Len(hist) = 3
    /\ \E c \in written :
          /\ Owner(c[1], c[3]) \in Keys(generated) \cap DOMAIN chunks
          /\ Owner(c[1], c[3]) \notin DOMAIN NewWorld
          /\ GetBlock(chunks, c[1], c[2], c[3]) # BlockAir

\* C29: an UpdateChunks call whose observer chunk is the one of the call
\* before it leaves the set of loaded coordinates and the voxels of every
\* loaded chunk as they were before the call.
C29_FixedPoint ==
    [][(/\ Len(hist) >= 1
        /\ Len(hist') = Len(hist) + 1
        /\ hist'[Len(hist')] = hist[Len(hist)])
       => /\ DOMAIN chunks' = DOMAIN chunks
          /\ \A k \in DOMAIN chunks : chunks'[k].Blocks = chunks[k].Blocks]_vars

\* a second call from the same observer chunk that generated chunks and
\* deleted them again, over a store SetBlock has changed
C29_Witness ==
    /\ op.name = "UpdateChunks"
    /\ Len(hist) >= 2
    /\ hist[Len(hist)] = hist[Len(hist) - 1]
    /\ generated # << >>
    /\ evicted # {}
    /\ \E c \in written : GetBlock(chunks, c[1], c[2], c[3]) = BlockAir

C26_FrozenFrustumKept ==
    [][cam.FrustumFrozen /\ cam'.FrustumFrozen => cam'.frustum = cam.frustum]_vars

\* C30 as stated: a PlaceBlock that calls SetBlock while the player's box is
\* free of blocks leaves the box free of blocks.
C30_BoxStaysFree ==
    [][(/\ edits' = edits + 1
        /\ op'.name = "SetBlock"
        /\ op'.t # BlockAir
        /\ ~checkCollision(chunks, plr.PhysicsPos))
       => ~checkCollision(chunks', plr'.PhysicsPos)]_vars

\* in the specifications with a player, the player stands on a block
PlayerAtRest == AtRest


====
